---- MODULE Spec2Model ----
(***************************************************************************)
(* The simulation-and-display pipeline of the three canvas components:     *)
(*   "Smoke"    src/src/components/SmokeCanvas.jsx                         *)
(*   "Flame"    src/src/components/FlameCanvas.jsx                         *)
(*   "FlameAlt" src/unnamed/part_000 (the second FlameCanvas variant)      *)
(*                                                                         *)
(* Numbers: GLSL/JS floats are modelled in fixed point, 1.0 = Scale, with  *)
(* products and quotients rounded toward zero.  The field is a SimRes x    *)
(* SimRes grid sampled at texel centres (texture wrap is clamp-to-edge,    *)
(* the three.js default).  JavaScript runs every handler to completion, so *)
(* each handler is one atomic action.                                      *)
(***************************************************************************)
EXTENDS Integers, Sequences, FiniteSets, TLC

\* ------------------------------------------------------------------ bounds
Scale == 10 * 100

\* side of the simulation grid of the model (the programs use 256 and 512)
SimRes == 3
\* frames executed in one behaviour of Spec
MaxTicks == 3
\* pointer, touch and resize events in one behaviour of Spec
MaxEvents == 2
\* frames executed in one behaviour of SpecIdle
IdleMaxTicks == 260
\* frames executed in one behaviour of SpecDecay
DecayMaxTicks == 60
\* runs of the cleanup function in one behaviour of SpecCleanup
MaxCleanups == 2

Components == {"Smoke", "Flame", "FlameAlt"}
IsFlame(c) == c \in {"Flame", "FlameAlt"}

\* window.innerWidth / window.innerHeight values the host may report; the last
\* is a window collapsed to no height
WindowSizes == {<<8, 8>>, <<16, 9>>, <<8, 0>>}
\* raw (clientX, clientY) of pointer and touch events; the last lies outside
\* an 8 pixel wide window (events keep coming while a drag leaves the window)
ClientPoints == {<<4, 4>>, <<2, 6>>, <<12, 2>>}
\* requestAnimationFrame timestamps, in milliseconds
TimeStamps == {1000, 2500}

Coords == 0 .. (SimRes - 1)
Cells == Coords \X Coords
Buffers == {1, 2}
\* render target of a pass that draws to the composer / screen
Screen == 0

\* ------------------------------------------------------ fixed-point helpers
Abs(x) == IF x < 0 THEN -x ELSE x

FMul(a, b) ==
  IF (a < 0) = (b < 0) THEN (Abs(a) * Abs(b)) \div Scale
  ELSE -((Abs(a) * Abs(b)) \div Scale)

FDiv(a, b) ==
  IF (a < 0) = (b < 0) THEN (Abs(a) * Scale) \div Abs(b)
  ELSE -((Abs(a) * Scale) \div Abs(b))

\* IEEE Infinity and NaN of a quantity that is >= 0 when it is finite
PosInf == 0 - 1
NaN == 0 - 2
IsFinite(v) == v >= 0

\* JavaScript a / b for a, b >= 0: x / 0 is Infinity, 0 / 0 is NaN
JsDiv(a, b) ==
  IF b = 0 THEN (IF a = 0 THEN NaN ELSE PosInf) ELSE FDiv(a, b)

\* JavaScript a * b: IEEE doubles round to nearest (FMul truncates instead,
\* for the shaders, whose precision GLSL leaves to the implementation)
JsMul(a, b) ==
  LET r == (2 * Abs(a) * Abs(b) + Scale) \div (2 * Scale)
  IN IF (a < 0) = (b < 0) THEN r ELSE -r

Clamp(x, lo, hi) == IF x < lo THEN lo ELSE IF x > hi THEN hi ELSE x

RECURSIVE SqrtSearch(_, _, _)
SqrtSearch(n, lo, hi) ==
  IF lo >= hi THEN lo
  ELSE LET mid == (lo + hi + 1) \div 2
       IN IF mid * mid <= n THEN SqrtSearch(n, mid, hi)
          ELSE SqrtSearch(n, lo, mid - 1)

\* GLSL length(vec2(dx, dy))
Length(dx, dy) == SqrtSearch(dx * dx + dy * dy, 0, 46340)

\* GLSL mix(x, y, a) = x * (1 - a) + y * a
Mix(x, y, a) == FMul(x, Scale - a) + FMul(y, a)

\* GLSL smoothstep(edge0, edge1, x), by its defining formula
\*   t = clamp((x - edge0) / (edge1 - edge0), 0, 1);  t * t * (3 - 2 * t)
\* which is what drivers evaluate for the shaders' edge0 > edge1 as well
Smoothstep(e0, e1, x) ==
  LET t == Clamp(FDiv(x - e0, e1 - e0), 0, Scale)
  IN FMul(FMul(t, t), 3 * Scale - 2 * t)

PiMilli == 3141592 \div Scale

\* sin on [0, pi] by Bhaskara's rational approximation (error < 0.002)
SinHalf(x) ==
  LET p == x * (PiMilli - x)
      num == (16 * p) \div Scale
      den == (5 * PiMilli * PiMilli - 4 * p) \div Scale
  IN (num * Scale) \div den

\* GLSL sin(p), p in thousandths of a radian
Sin(p) ==
  LET q == p % (2 * PiMilli)
  IN IF q <= PiMilli THEN SinHalf(q) ELSE -SinHalf(q - PiMilli)

\* e^(-k) for k = 0, 1, 2, ... in thousandths
ExpInt == <<1000, 368, 135, 50, 18, 7, 2, 1>>

\* GLSL exp(-y) for y >= 0: e^(-floor y) times the Taylor series of e^(-frac y)
ExpNeg(y) ==
  LET k == y \div Scale
      f == y % Scale
      f2 == FMul(f, f)
      f3 == FMul(f2, f)
      f4 == FMul(f3, f)
      f5 == FMul(f4, f)
      frac == Scale - f + f2 \div 2 - f3 \div 6 + f4 \div 24 - f5 \div 120
  IN IF k + 1 <= Len(ExpInt) THEN FMul(ExpInt[k + 1], frac) ELSE 0

\* texel-centre coordinate of grid index i
CellUV(i) == ((2 * i + 1) * Scale) \div (2 * SimRes)

\* texture2D at the texel offset by (di, dj), clamp-to-edge
Sample(src, c, di, dj) ==
  src[<<Clamp(c[1] + di, 0, SimRes - 1), Clamp(c[2] + dj, 0, SimRes - 1)>>]

\* ------------------------------------------------- shader constant tables
\* mix(center, avg, .) factor of the diffusion step
MixFactor(c) == IF c = "Flame" THEN 600 ELSE 800
\* proportional cooling, diff *= .
CoolFactor(c) == IF c = "Flame" THEN 995 ELSE 985
\* absolute cooling, diff -= .
AbsDecay(c) == IF c = "Flame" THEN 1 ELSE 2
\* brush radius of the injection
BrushRadius(c) == IF c = "Flame" THEN 60 ELSE 40
\* injected heat at the brush centre
HeatInput(c) == IF c = "Flame" THEN 700 ELSE 500

\* SmokeCanvas: color *= 0.97
SmokeDecay == 970
\* SmokeCanvas: exp(-dist * 40.0)
ForceFalloff == 40
\* SmokeCanvas: ... * length(uMouse.zw) * 3.0
SmokeGain == 3
\* SmokeCanvas: mouse.current.dx *= 0.9
PointerDecay == 900

\* channels of a field texel: RedFormat in the flame components, RGBA in smoke
Channels(c) == IF IsFlame(c) THEN 1 ELSE 4

ZeroTexel(c) == [k \in 1 .. Channels(c) |-> 0]
ZeroField(c) == [x \in Cells |-> ZeroTexel(c)]

\* ------------------------------------------------ flame simulation shader
\* steps 1 and 2 of the fragment shader: diffusion, then cooling
FlameDiffuse(comp, src, c) ==
  LET center == Sample(src, c, 0, 0)[1]
      top == Sample(src, c, 0, 1)[1]
      bottom == Sample(src, c, 0, -1)[1]
      left == Sample(src, c, -1, 0)[1]
      right == Sample(src, c, 1, 0)[1]
      avg == (top + bottom + left + right + center) \div 5
      diff == Mix(center, avg, MixFactor(comp))
  IN FMul(diff, CoolFactor(comp)) - AbsDecay(comp)

\* a distance that leaves the x offset unscaled
FlameDistancePlain(uv, um, asp) == Length(uv[1] - um[1], uv[2] - um[2])

\* d = uv - m; d.x *= aspect; len = length(d).  With a non-finite aspect d.x
\* is NaN (offset 0, or aspect NaN) or infinite, and so is len.
FlameDistanceAt(uv, um, asp) ==
  IF IsFinite(asp)
  THEN Length(FMul(uv[1] - um[1], asp), uv[2] - um[2])
  ELSE IF asp = NaN \/ uv[1] = um[1] THEN NaN ELSE PosInf

\* step 3 at the fragment coordinate uv: the heat added by the injection
\* (len < radius is false for an infinite or NaN len)
FlameForcingAt(comp, uv, um, asp) ==
  LET len == FlameDistanceAt(uv, um, asp)
  IN IF IsFinite(len) /\ len < BrushRadius(comp)
     THEN FMul(Smoothstep(BrushRadius(comp), 0, len), HeatInput(comp))
     ELSE 0

\* aspect-corrected distance of the texel from the pointer uniform
FlameDistance(c, um, asp) ==
  FlameDistanceAt(<<CellUV(c[1]), CellUV(c[2])>>, um, asp)

\* step 3: the heat added to the texel by the injection
FlameForcing(comp, c, um, asp) ==
  FlameForcingAt(comp, <<CellUV(c[1]), CellUV(c[2])>>, um, asp)

\* a shader that writes diff without the max
NoClampFloor(diff) == diff

\* gl_FragColor = vec4(max(diff, 0.0), ...)
ClampFloor(diff) == IF diff > 0 THEN diff ELSE 0

FlameCell(comp, src, c, um, asp) ==
  <<ClampFloor(FlameDiffuse(comp, src, c) + FlameForcing(comp, c, um, asp))>>

\* ------------------------------------------------ smoke simulation shader
\* 0.5 + 0.5 * sin(phase)
Wave(phase) == Scale \div 2 + FMul(Scale \div 2, Sin(phase))

\* smoke * force * length(uMouse.zw) * 3.0, per rgb channel
SmokeForcing(c, um, t) ==
  LET dx == CellUV(c[1]) - um[1]
      dy == CellUV(c[2]) - um[2]
      dist == Length(dx, dy)
      force == ExpNeg(dist * ForceFalloff)
      vel == Length(um[3], um[4])
      smoke == <<Wave(t + dx * 10), Wave(t + dy * 10 + 2 * Scale), Wave(t + 4 * Scale)>>
  IN [k \in 1 .. 3 |-> FMul(FMul(FMul(smoke[k], force), vel), SmokeGain * Scale)]

SmokeCell(src, c, um, t) ==
  LET color == [k \in 1 .. 4 |-> FMul(src[c][k], SmokeDecay)]
      add == SmokeForcing(c, um, t)
  IN [k \in 1 .. 4 |-> IF k <= 3 THEN color[k] + add[k] ELSE color[k]]

\* one run of the simulation material over every texel of the target
SimPass(comp, src, um, asp, t) ==
  [c \in Cells |->
     IF IsFlame(comp) THEN FlameCell(comp, src, c, um, asp)
     ELSE SmokeCell(src, c, um, t)]

\* total forcing a pass adds to texel c
Forcing(comp, c, um, asp, t) ==
  IF IsFlame(comp) THEN FlameForcing(comp, c, um, asp)
  ELSE LET add == SmokeForcing(c, um, t) IN add[1] + add[2] + add[3]

\* ------------------------------------------------------------------ state
VARIABLES
  comp,          \* which component is mounted
  phase,         \* "initializing", "running", "disposed" (the effect's lifecycle)
  innerWidth,    \* window.innerWidth
  innerHeight,   \* window.innerHeight
  mouse,         \* mouse.current: [x, y, dx, dy] (dx, dy used by SmokeCanvas only)
  targetA,       \* buffer the handle targetA / rtA refers to
  targetB,       \* buffer the handle targetB / rtB refers to
  field,         \* contents of the two render targets
  material,      \* mesh.material: "sim" or "display"
  prevTex,       \* simMat.uniforms.prev / uTexture: bound buffer, 0 = null
  dispTex,       \* displayMat.uniforms.tex: bound buffer, 0 = no such uniform
  uMouse,        \* the mouse / uMouse uniform
  aspect,        \* simMat.uniforms.aspect (0 in SmokeCanvas, which has none)
  listeners,     \* event listeners registered on window
  rafPending,    \* number of queued requestAnimationFrame(animate) callbacks
  rendererDisposed, \* renderer.dispose() has run
  disposeCount,  \* dispose() calls received by each render target
  ticks,         \* frames executed
  events,        \* input and resize events delivered
  steps,         \* the operations of the last frame, in order
  renders,       \* the draw calls of the last frame: material, input, target
  roles,         \* <<front, back>> buffers at the start of the last frame
  injected,      \* forcing added to each texel by the last frame's update
  idleAtTick,    \* the pointer was inactive when the last frame ran
  moved,         \* a pointer event arrived since the last frame
  idleTicks,     \* consecutive frames without a pointer event in between
  staleTicks,    \* frames executed after disposal
  attached,      \* renderer.domElement is a child of the mount node
  refSet,        \* mountRef.current is not null
  fault,         \* a handler threw
  cleanups,      \* runs of the cleanup function
  probe          \* a fragment coordinate and the forcing the shader gives it

domVars == <<attached, refSet, fault, cleanups>>

vars == <<comp, phase, innerWidth, innerHeight, mouse, targetA, targetB, field,
          material, prevTex, dispTex, uMouse, aspect, listeners, rafPending,
          rendererDisposed, disposeCount, ticks, events, steps, renders, roles,
          injected, idleAtTick, moved, idleTicks, staleTicks, attached, refSet,
          fault, cleanups, probe>>

\* useRef initial value of the pointer
InitMouse(c) ==
  IF IsFlame(c) THEN [x |-> Scale \div 2, y |-> Scale \div 2, dx |-> 0, dy |-> 0]
  ELSE [x |-> 0, y |-> 0, dx |-> 0, dy |-> 0]

\* the state when the effect has created renderer, targets and materials
Init ==
  /\ comp \in Components
  /\ phase = "initializing"
  /\ \E sz \in WindowSizes :
       /\ sz[1] > 0
       /\ sz[2] > 0
       /\ innerWidth = sz[1]
       /\ innerHeight = sz[2]
       /\ aspect = IF IsFlame(comp) THEN FDiv(sz[1], sz[2]) ELSE 0
  /\ mouse = InitMouse(comp)
  /\ targetA = 1
  /\ targetB = 2
  /\ field = [b \in Buffers |-> ZeroField(comp)]
  /\ material = "sim"
  /\ prevTex = IF IsFlame(comp) THEN 1 ELSE 0
  /\ dispTex = IF IsFlame(comp) THEN 1 ELSE 0
  /\ uMouse = IF IsFlame(comp) THEN <<0, 0, 0>> ELSE <<0, 0, 0, Scale>>
  /\ listeners = {}
  /\ rafPending = 0
  /\ rendererDisposed = FALSE
  /\ disposeCount = [b \in Buffers |-> 0]
  /\ ticks = 0
  /\ events = 0
  /\ steps = <<>>
  /\ renders = <<>>
  /\ roles = <<0, 0>>
  /\ injected = [c \in Cells |-> 0]
  /\ idleAtTick = FALSE
  /\ moved = FALSE
  /\ idleTicks = 0
  /\ staleTicks = 0
  /\ attached = TRUE
  /\ refSet = TRUE
  /\ fault = FALSE
  /\ cleanups = 0
  /\ probe = <<>>

\* ------------------------------------------------------------ the frame
\* a frame that binds the render target's own texture as its input
BindInputAliased(a, b) == b

\* simMat.uniforms.prev.value = targetA.texture
BindInput(a, b) == a

\* renderer.setRenderTarget(targetB)
RenderTarget(a, b) == b

\* a swap written without the temporary: targetA = targetB; targetB = targetA
SwapNoTemp(a, b) == <<b, b>>

\* const temp = targetA; targetA = targetB; targetB = temp   ([rtA, rtB] = [rtB, rtA])
Swap(a, b) == <<b, a>>

\* displayMat.uniforms.tex.value = targetA.texture, after the swap
BindDisplay(a, b) == a

\* a push that does not flip the y axis
PushMouseUnflipped(c, m) ==
  IF IsFlame(c) THEN <<m.x, m.y, 0>> ELSE <<m.x, m.y, m.dx, m.dy>>

\* uniforms.mouse.value.set(x, 1 - y, ...)
PushMouse(c, m) ==
  IF IsFlame(c) THEN <<m.x, Scale - m.y, 0>>
  ELSE <<m.x, Scale - m.y, m.dx, m.dy>>

\* a frame that leaves the delta as it is
NoDecayMouse(m) == m

\* mouse.current.dx *= 0.9; mouse.current.dy *= 0.9
DecayMouse(m) ==
  [m EXCEPT !.dx = JsMul(m.dx, PointerDecay), !.dy = JsMul(m.dy, PointerDecay)]

\* the pass that the composer's RenderPass executes: the mesh with its material
PassName(mat) == IF mat = "sim" THEN "update" ELSE "display"

\* a frame that requests two successors
RequestsTwice == 1 + 1

\* requestAnimationFrame(animate): calls per run of animate
FrameRequests == 1

\* the body of animate(t); queued = 1 when the host runs a queued callback,
\* 0 when the effect calls animate directly
Frame(t, queued) ==
  LET flame == IsFlame(comp)
      mat1 == IF flame THEN "sim" ELSE material
      prev1 == BindInput(targetA, targetB)
      um == PushMouse(comp, mouse)
      rt == RenderTarget(targetA, targetB)
      written == [field EXCEPT ![rt] = SimPass(comp, field[prev1], um, aspect, t)]
      sw == Swap(targetA, targetB)
      mat2 == IF flame THEN "display" ELSE mat1
      disp1 == IF flame THEN BindDisplay(sw[1], sw[2]) ELSE dispTex
      shown == IF mat2 = "sim" THEN prev1 ELSE disp1
  IN /\ material' = mat2
     /\ prevTex' = prev1
     /\ uMouse' = um
     \* a draw into released GPU resources may or may not take effect
     /\ field' \in (IF rendererDisposed THEN {written, field} ELSE {written})
     /\ targetA' = sw[1]
     /\ targetB' = sw[2]
     /\ dispTex' = disp1
     /\ mouse' = IF flame THEN mouse ELSE DecayMouse(mouse)
     /\ rafPending' = rafPending - queued + FrameRequests
     /\ ticks' = ticks + 1
     /\ steps' = <<"push", PassName(mat1), "swap", PassName(mat2), "compose">>
                 \o (IF flame THEN <<>> ELSE <<"decay">>)
     /\ renders' = << [mat |-> mat1, input |-> prev1, target |-> rt],
                      [mat |-> mat2, input |-> shown, target |-> Screen] >>
     /\ roles' = <<targetA, targetB>>
     /\ injected' = [c \in Cells |-> Forcing(comp, c, um, aspect, t)]
     /\ idleAtTick' = (~moved /\ mouse.dx = 0 /\ mouse.dy = 0)
     /\ moved' = FALSE
     /\ idleTicks' = IF moved THEN 0 ELSE idleTicks + 1
     /\ staleTicks' = IF phase = "disposed" THEN staleTicks + 1 ELSE staleTicks

\* the rest of the effect: animate(0), then the addEventListener calls
Mount ==
  /\ phase = "initializing"
  /\ Frame(0, 0)
  /\ phase' = "running"
  /\ listeners' = IF IsFlame(comp) THEN {"resize", "mousemove", "touchmove"}
                  ELSE {"mousemove"}
  /\ UNCHANGED <<comp, innerWidth, innerHeight, aspect, rendererDisposed,
                 disposeCount, events, domVars, probe>>

\* a queued frame callback fires, with a timestamp of T
TickIn(n, T) ==
  /\ phase # "initializing"
  /\ rafPending > 0
  /\ ticks < n
  /\ \E t \in T : Frame(t, 1)
  /\ UNCHANGED <<comp, phase, innerWidth, innerHeight, aspect, listeners,
                 rendererDisposed, disposeCount, events, domVars, probe>>

TickUpTo(n) == TickIn(n, TimeStamps)

Tick == TickUpTo(MaxTicks)

\* ------------------------------------------------------------ the events
\* clientX / window.innerWidth, clientY / window.innerHeight
Normalize(p, w, h) == <<FDiv(p[1], w), FDiv(p[2], h)>>

\* a handler that adds each step to the stored delta
OnMoveAccumulating(c, m, p, w, h) ==
  LET n == Normalize(p, w, h)
  IN IF IsFlame(c) THEN [m EXCEPT !.x = n[1], !.y = n[2]]
     ELSE [x |-> n[1], y |-> n[2],
           dx |-> m.dx + n[1] - m.x, dy |-> m.dy + n[2] - m.y]

\* handleMove (SmokeCanvas) and onMove (the flame components)
OnMove(c, m, p, w, h) ==
  LET n == Normalize(p, w, h)
  IN IF IsFlame(c) THEN [m EXCEPT !.x = n[1], !.y = n[2]]
     ELSE [x |-> n[1], y |-> n[2], dx |-> n[1] - m.x, dy |-> n[2] - m.y]

PointerUnchanged ==
  UNCHANGED <<comp, phase, innerWidth, innerHeight, targetA, targetB, field,
              material, prevTex, dispTex, uMouse, aspect, listeners, rafPending,
              rendererDisposed, disposeCount, ticks, steps, renders, roles,
              injected, idleAtTick, idleTicks, staleTicks, domVars, probe>>

\* a pointer needs a viewport with an area to be over
Hoverable == innerWidth > 0 /\ innerHeight > 0

MouseMove ==
  /\ "mousemove" \in listeners
  /\ Hoverable
  /\ events < MaxEvents
  /\ \E p \in ClientPoints : mouse' = OnMove(comp, mouse, p, innerWidth, innerHeight)
  /\ moved' = TRUE
  /\ events' = events + 1
  /\ PointerUnchanged

\* the anonymous touchmove listener of the flame components
TouchMove ==
  /\ "touchmove" \in listeners
  /\ Hoverable
  /\ events < MaxEvents
  /\ \E p \in ClientPoints :
       LET n == Normalize(p, innerWidth, innerHeight)
       IN mouse' = [mouse EXCEPT !.x = n[1], !.y = n[2]]
  /\ moved' = TRUE
  /\ events' = events + 1
  /\ PointerUnchanged

\* a handler that divides the height by the width
OnResizeInverse(w, h) == JsDiv(h, w)

\* simMat.uniforms.aspect.value = w / h
OnResize(w, h) == JsDiv(w, h)

\* the window changes size; onResize runs if it is registered
Resize ==
  /\ phase # "initializing"
  /\ events < MaxEvents
  /\ \E sz \in WindowSizes :
       /\ sz # <<innerWidth, innerHeight>>
       /\ innerWidth' = sz[1]
       /\ innerHeight' = sz[2]
       /\ aspect' = IF "resize" \in listeners THEN OnResize(sz[1], sz[2]) ELSE aspect
  /\ events' = events + 1
  /\ UNCHANGED <<comp, phase, mouse, targetA, targetB, field, material, prevTex,
                 dispTex, uMouse, listeners, rafPending, rendererDisposed,
                 disposeCount, ticks, steps, renders, roles, injected, idleAtTick,
                 moved, idleTicks, staleTicks, domVars, probe>>

\* ---------------------------------------------------------- the cleanup
\* the render targets whose dispose() the cleanup calls
Released(c, a, b) == IF IsFlame(c) THEN {a, b} ELSE {}

\* mountRef.current.removeChild(renderer.domElement) runs when the ref is set,
\* and removeChild of a node that is not a child throws NotFoundError
RemoveChildThrows(ref, att) == ref /\ ~att

\* the function the effect returns, run with mountRef.current set or null
Cleanup(ref) ==
  /\ phase' = "disposed"
  /\ cleanups' = cleanups + 1
  /\ listeners' = listeners \ {"resize", "mousemove"}
  /\ IF RemoveChildThrows(ref, attached)
     THEN /\ fault' = TRUE
          /\ UNCHANGED <<attached, rendererDisposed, disposeCount>>
     ELSE /\ fault' = fault
          /\ attached' = (attached /\ ~ref)
          /\ rendererDisposed' = TRUE
          /\ disposeCount' = [b \in Buffers |->
                                IF b \in Released(comp, targetA, targetB)
                                THEN disposeCount[b] + 1 ELSE disposeCount[b]]
  /\ UNCHANGED <<comp, innerWidth, innerHeight, mouse, targetA, targetB, field,
                 material, prevTex, dispTex, uMouse, aspect, rafPending, ticks,
                 events, steps, renders, roles, injected, idleAtTick, moved,
                 idleTicks, staleTicks, probe>>

\* the unmount: the host may have cleared the ref before it runs the cleanup
Dispose ==
  /\ phase = "running"
  /\ \E r \in BOOLEAN : refSet' = r /\ Cleanup(r)

Next == Mount \/ Tick \/ MouseMove \/ TouchMove \/ Resize \/ Dispose

Spec == Init /\ [][Next]_vars

\* frames only: no pointer, touch or resize event and no unmount
IdleTick == TickUpTo(IdleMaxTicks)

IdleNext == Mount \/ IdleTick

SpecIdle == Init /\ [][IdleNext]_vars

\* the pointer moves right after the mount and then rests for many frames
EarlyMove == ticks = 1 /\ MouseMove

RestTick == TickIn(DecayMaxTicks, {1000})

DecayNext == Mount \/ EarlyMove \/ RestTick

SpecDecay == Init /\ [][DecayNext]_vars

\* the cleanup function invoked again on a disposed component
DisposeAgain ==
  /\ phase = "disposed"
  /\ cleanups < MaxCleanups
  /\ refSet' = refSet
  /\ Cleanup(refSet)

CleanupNext == Mount \/ Tick \/ Dispose \/ DisposeAgain

SpecCleanup == Init /\ [][CleanupNext]_vars

\* a frame can run: the synchronous animate(0) of the effect has not run yet,
\* or a frame callback is queued (and the model's bound is not reached)
FrameDue == phase = "initializing" \/ (rafPending > 0 /\ ticks < MaxTicks)

\* the host runs a frame that stays due: weak fairness of the steps that
\* advance the frame counter, WF_ticks(Mount \/ Tick), with the enabling
\* condition of those steps written out as FrameDue
FrameFair == ([]<>(~FrameDue)) \/ ([]<><<ticks' = ticks + 1>>_ticks)

SpecLive == Init /\ [][Next]_vars /\ FrameFair

\* offsets from the pointer of the probed fragment coordinates
ProbeOffsets == {10 * i : i \in (0 - 8) .. 8}

\* the injection of the flame shader evaluated at one fragment coordinate:
\* probe = <<x offset, y offset, window width, window height, heat added>>
Probe ==
  /\ IsFlame(comp)
  /\ phase = "running"
  /\ probe = <<>>
  /\ \E ox \in ProbeOffsets : \E oy \in ProbeOffsets :
       LET um == PushMouse(comp, mouse)
           uv == <<um[1] + ox, um[2] + oy>>
       IN probe' = <<ox, oy, innerWidth, innerHeight,
                     FlameForcingAt(comp, uv, um, aspect)>>
  /\ UNCHANGED <<comp, phase, innerWidth, innerHeight, mouse, targetA, targetB,
                 field, material, prevTex, dispTex, uMouse, aspect, listeners,
                 rafPending, rendererDisposed, disposeCount, ticks, events, steps,
                 renders, roles, injected, idleAtTick, moved, idleTicks,
                 staleTicks, domVars>>

BrushNext == Mount \/ Resize \/ Probe

SpecBrush == Init /\ [][BrushNext]_vars

\* ================================================================ claims
FrontField == field[targetA]

\* C1: after the swap of any frame, targetA (front) is the buffer the update
\* just rendered into and is what the next frame binds as its input, targetB
\* (back) is the buffer the update read and is the next frame's render
\* target, and the two handles always name the two distinct buffers.
C1_SwapCorrect ==
  /\ {targetA, targetB} = Buffers
  /\ ticks > 0 =>
       /\ targetA = renders[1].target
       /\ targetB = renders[1].input
       /\ BindInput(targetA, targetB) = renders[1].target
       /\ RenderTarget(targetA, targetB) = renders[1].input

\* three frames ran, so the roles were swapped three times
C1_Witness == ticks = 3 /\ targetA = 2 /\ renders[1].target = 2 /\ roles = <<1, 2>>

\* C2: in every frame, whatever events came in between, no draw of the
\* simulation material samples the buffer it renders into, and the update
\* reads the front buffer and writes the back buffer.
C2_NoAliasing ==
  ticks > 0 =>
    /\ \A i \in DOMAIN renders :
         renders[i].mat = "sim" => renders[i].input # renders[i].target
    /\ renders[1].mat = "sim"
    /\ renders[1].input = roles[1]
    /\ renders[1].target = roles[2]
    /\ roles[1] # roles[2]

\* a frame ran right after a pointer event and a resize had been handled
C2_Witness ==
  /\ ticks >= 2
  /\ events >= 2
  /\ idleTicks = 0
  /\ ~moved
  /\ IsFlame(comp) => aspect # FDiv(8, 8)

\* C3: the display step after the swap reads the buffer the update wrote in
\* the same frame, not the buffer the update read.
C3_DisplayReadsWritten ==
  ticks > 0 =>
    /\ renders[2].input = renders[1].target
    /\ renders[2].input # renders[1].input

\* C4: every frame performs push, update, swap, display, compose, decay, in
\* this order and each once.
C4_StepOrder ==
  ticks > 0 => steps = <<"push", "update", "swap", "display", "compose", "decay">>

\* C5: once the cleanup has run no frame executes any more.
C5_NoTickAfterDispose == staleTicks = 0

\* C6: every channel of every texel of both buffers is >= 0.
C6_NonNegative ==
  \A b \in Buffers : \A c \in Cells : \A k \in DOMAIN field[b][c] :
    field[b][c][k] >= 0

\* the clamp acted: a heated front buffer with a texel the cooling drove to 0
C6_Witness ==
  /\ IsFlame(comp)
  /\ ticks >= 2
  /\ \E c \in Cells : FrontField[c][1] > 0
  /\ \E c \in Cells :
       /\ FrontField[c][1] = 0
       /\ FlameDiffuse(comp, field[targetB], c) < 0

\* the number of frames in which the absolute decay alone removes one injection
DecayBound(c) ==
  IF IsFlame(c) THEN HeatInput(c) \div AbsDecay(c) + 1 ELSE IdleMaxTicks

\* C7: with no pointer event, the field is all zero after a number of frames
\* bounded by the absolute decay constant.
C7_DecayToZero ==
  ticks >= DecayBound(comp) =>
    \A c \in Cells : \A k \in DOMAIN FrontField[c] : FrontField[c][k] = 0

\* C8: a frame in which the pointer is inactive adds no forcing to any texel.
C8_NoForcingWhenInactive ==
  (ticks > 0 /\ idleAtTick) => \A c \in Cells : injected[c] = 0

\* the upper end of the channel range the specification names (1.2)
HeatCeiling == (12 * Scale) \div 10

\* C9: every value written to a buffer is at most the channel ceiling.
C9_BoundedAbove ==
  \A b \in Buffers : \A c \in Cells : \A k \in DOMAIN field[b][c] :
    field[b][c][k] <= HeatCeiling

\* C10: after disposal each of the two render targets was disposed once.
C10_BothReleased ==
  phase = "disposed" => \A b \in Buffers : disposeCount[b] = 1

\* steps of the behaviour, told apart by the counters they advance
EventStep == events' = events + 1
WindowStep == <<innerWidth, innerHeight>>' # <<innerWidth, innerHeight>>
PointerStep == EventStep /\ ~WindowStep
TickStep == ticks' = ticks + 1

\* C11: no event delivered after the disposal changes the pointer state or
\* the aspect parameter.
C11_NoEventAfterDispose ==
  [][(phase = "disposed" /\ EventStep) => (mouse' = mouse /\ aspect' = aspect)]_vars

\* C12: a second run of the cleanup raises no fault and leaves the
\* component's state as the first run left it.
C12_Idempotent ==
  [][(phase = "disposed" /\ cleanups' > cleanups) =>
       /\ ~fault'
       /\ UNCHANGED <<phase, listeners, rendererDisposed, attached, refSet>>]_vars

\* C13: the aspect parameter is a finite positive number in every state.
C13_AspectFinitePositive == IsFlame(comp) => aspect > 0

InUnit(v) == v >= 0 /\ v <= Scale

\* C14: the stored pointer position, and the position pushed into the update
\* pass, lie in [0,1] x [0,1].
C14_PointerInRange ==
  /\ InUnit(mouse.x) /\ InUnit(mouse.y)
  /\ ticks > 0 => InUnit(uMouse[1]) /\ InUnit(uMouse[2])

\* C15: a resize of the window leaves the buffers, their roles, the grid, the
\* field, the bound textures and the pointer state alone; in the mounted
\* flame components the aspect parameter becomes new width / new height.
C15_ResizeOnlyAspect ==
  [][WindowStep =>
       /\ UNCHANGED <<targetA, targetB, field, mouse, uMouse, prevTex, dispTex,
                      material, ticks, moved>>
       /\ \A b \in Buffers : DOMAIN field'[b] = Cells
       /\ (IsFlame(comp) /\ phase = "running" /\ innerHeight' > 0) =>
            aspect' = FDiv(innerWidth', innerHeight')
       /\ ~IsFlame(comp) => aspect' = aspect]_vars

\* a mounted flame component whose only event was the resize from 16:9 to 1:1
C15_Witness ==
  /\ IsFlame(comp)
  /\ phase = "running"
  /\ events = 1
  /\ ~moved
  /\ idleTicks = ticks
  /\ <<innerWidth, innerHeight>> = <<8, 8>>
  /\ aspect = Scale
  /\ \E c \in Cells : FrontField[c][1] > 0

\* the squared magnitude of the stored pointer delta
Mag2(m) == m.dx * m.dx + m.dy * m.dy

\* the largest magnitude that rounding maps 0.9 * v back to v
DecayFloor == Scale \div (2 * (Scale - PointerDecay))

\* a rest of nearly all the frames the model lets the pointer rest
DecayFrames == DecayMaxTicks - 4

\* C16 as stated: in SmokeCanvas every frame leaves the magnitude of the
\* delta no larger, and strictly smaller while it is not zero.
C16_StrictDecay ==
  [][(comp = "Smoke" /\ TickStep) =>
       /\ Mag2(mouse') <= Mag2(mouse)
       /\ Mag2(mouse) > 0 => Mag2(mouse') < Mag2(mouse)]_vars

\* C16 amended: in SmokeCanvas every frame, with or without an event before
\* it, leaves neither component of the delta larger, makes the magnitude
\* strictly smaller while a component exceeds the rounding floor, and after
\* DecayFrames frames without an event both components are within the floor.
C16_DecayToFloor ==
  [][(comp = "Smoke" /\ TickStep) =>
       /\ Abs(mouse'.dx) <= Abs(mouse.dx)
       /\ Abs(mouse'.dy) <= Abs(mouse.dy)
       /\ (Abs(mouse.dx) > DecayFloor \/ Abs(mouse.dy) > DecayFloor) =>
            Mag2(mouse') < Mag2(mouse)
       /\ idleTicks' >= DecayFrames =>
            (Abs(mouse'.dx) <= DecayFloor /\ Abs(mouse'.dy) <= DecayFloor)]_vars

\* a delta that rounding holds at the floor, non-zero, after a long rest
C16_Witness ==
  /\ comp = "Smoke"
  /\ idleTicks >= DecayFrames
  /\ mouse.dx # 0
  /\ mouse.dx = JsMul(mouse.dx, PointerDecay)

\* C17: at most one frame callback is queued at any time, from the mount on
\* exactly one, and the frames keep coming (up to the bound of the model).
C17_SingleTimeline ==
  /\ [](rafPending <= 1)
  /\ [](phase # "initializing" => rafPending = 1)
  /\ [][TickStep => rafPending' = 1]_vars
  /\ <>(ticks = MaxTicks)

\* the last frame of the model ran, after events, with one successor queued
C17_Witness == ticks = MaxTicks /\ events = MaxEvents /\ rafPending = 1

\* the squared distance, in pixels, of a probed coordinate from the pointer
\* (offsets are in thousandths of the window, so this is scaled by Scale^2)
PixelDist2(pr) == (pr[1] * pr[3]) * (pr[1] * pr[3]) + (pr[2] * pr[4]) * (pr[2] * pr[4])

\* the squared radius, in pixels, of the circle of r thousandths of the height
PixelRadius2(r, pr) == (r * pr[4]) * (r * pr[4])

\* C18: with the pointer at the display centre, in the flame components a
\* coordinate receives forcing exactly when it lies inside the circle, in
\* screen pixels, of radius brush radius x window height around the pointer.
C18_CircularFootprint ==
  (probe # <<>> /\ mouse = InitMouse(comp)) =>
    (probe[5] > 0 <=> PixelDist2(probe) < PixelRadius2(BrushRadius(comp), probe))

\* on a 16:9 window, a coordinate the uncorrected distance would put inside
\* the brush receives no forcing, and one inside the circle does
C18_Witness ==
  /\ probe # <<>>
  /\ <<probe[3], probe[4]>> = <<16, 9>>
  /\ probe[1] # 0
  /\ Length(probe[1], probe[2]) < BrushRadius(comp)
  /\ probe[5] = 0

\* C19: in SmokeCanvas a pointer event stores (new position - stored
\* position) as the delta together with the new position, and the next frame
\* reads the delta as the last event left it.
C19_LastStepDelta ==
  [][/\ (comp = "Smoke" /\ PointerStep) =>
          /\ \E p \in ClientPoints :
               <<mouse'.x, mouse'.y>> = Normalize(p, innerWidth, innerHeight)
          /\ mouse'.dx = mouse'.x - mouse.x
          /\ mouse'.dy = mouse'.y - mouse.y
     /\ (comp = "Smoke" /\ TickStep) =>
          (uMouse'[3] = mouse.dx /\ uMouse'[4] = mouse.dy)]_vars

\* two events came between the first and the second frame, and the second
\* frame read the step of the last one, not the displacement since the
\* first frame (which is the pushed position, the pointer having started at 0)
C19_Witness ==
  /\ comp = "Smoke"
  /\ ticks = 2
  /\ events = 2
  /\ ~moved
  /\ uMouse[3] # 0
  /\ uMouse[3] # uMouse[1]

\* C20: a pointer event changes only the pointer state; every frame pushes
\* (x, 1 - y) of the stored pointer position, which is that of the last
\* event, or the initial position when there was none.
C20_PointerOnlyAndPushed ==
  [][/\ PointerStep =>
          /\ UNCHANGED <<field, targetA, targetB, prevTex, dispTex, material,
                         uMouse, aspect, ticks>>
          /\ \E p \in ClientPoints :
               <<mouse'.x, mouse'.y>> = Normalize(p, innerWidth, innerHeight)
     /\ TickStep =>
          /\ uMouse'[1] = mouse.x
          /\ uMouse'[2] = Scale - mouse.y
          /\ mouse'.x = mouse.x
          /\ mouse'.y = mouse.y
          /\ (events = 0 /\ ticks = 0) =>
               (mouse.x = InitMouse(comp).x /\ mouse.y = InitMouse(comp).y)]_vars

\* a frame pushed the position of an event that arrived since the last frame
C20_Witness ==
  /\ ticks >= 2
  /\ events >= 1
  /\ ~moved
  /\ idleTicks = 0
  /\ uMouse[1] = mouse.x
  /\ uMouse[2] = Scale - mouse.y
  /\ mouse.y # Scale \div 2

====
